---- MODULE Spec2Model ----
(***************************************************************************)
(* Aircraft Display System (threads.c, threads.h, main.c).                 *)
(*                                                                         *)
(* The UART interrupt handler reassembles bytes into words and feeds the   *)
(* data FIFO; Process_New_Aircraft_Thread decodes seven words into one     *)
(* record of the staging array; Update_Current_Aircrafts_Thread copies the *)
(* staging array into the live array on end of burst and projects it;      *)
(* Select_Aircraft_Thread picks the selected aircraft; Update_Search_Range *)
(* changes the display radius; the two display threads read the live       *)
(* array.  Threads interleave at the granularity of their accesses to      *)
(* shared memory; an interrupt handler runs to completion.                 *)
(*                                                                         *)
(* Units.  A 32-bit word is a tuple of four bytes, least significant       *)
(* first.  longitude, latitude, altitude, velocity and heading hold the    *)
(* value of the wire's fixed-point integer (1e-4 units): the float the     *)
(* code stores is that integer divided by 10000.0f.  Distances are in      *)
(* units of 10 m and computed in exact integer arithmetic.                 *)
(***************************************************************************)
EXTENDS Integers, Sequences, FiniteSets, TLC

(***************************** bounds **************************************)
\* Capacity of stagingAircrafts and currentAircrafts (200 in threads.h:20),
\* scaled down.
MAX_AIRCRAFTS == 3
\* Capacity, in words, of the data FIFO.
FIFO_SIZE == 8
\* Messages (wire records and end-of-burst words) the sender transmits when
\* it may transmit anything.
MaxMessages == 3
\* Joystick presses, joystick samples and range-button presses in a run.
MaxPresses == 1
MaxSamples == 1
MaxButtons == 1
\* Bytes the UART holds when its interrupt fires.
RxChunk == 16
MaxRangeEvents == 20

(************************** program constants ******************************)
MESSAGE_SIZE == 28
WORD_BYTES == 4
RECORD_WORDS == 7
CENTER_LATITUDE == 296465
CENTER_LONGITUDE == 0 - 823533
INITIAL_RANGE == 50
MAX_RANGE == 200
MIN_RANGE == 20
RANGE_STEP == 10
MAX_PIXEL_RADIUS == 100
RADAR_TOP == 70
RADAR_BOTTOM == 279
MIDPOINT == 2048
DEADZONE == 900
\* Screen size of the ST7789 driver (X_MAX, Y_MAX of its header).
X_MAX == 240
Y_MAX == 320
\* km per degree of latitude (111.32f) and of longitude
\* (111.32f * cosf(CENTER_LATITUDE)), in units of 10 m per degree / 10000.
KM_PER_DEGREE_LAT == 11132
KM_PER_DEGREE_LON == 9675

NONE == 0 - 1
NA_LITERAL == 0 - 2
SPACE == 32
SCALE == 10000
FLOAT_BITS == 24
Threads == {"dec", "upd", "sel", "rng", "dsp", "inf"}
Projectors == {"upd", "rng"}
Slots == 0 .. (MAX_AIRCRAFTS - 1)

(***************************** arithmetic **********************************)
Abs(x) == IF x < 0 THEN 0 - x ELSE x

\* C's integer division and float-to-integer cast: truncation toward zero.
TruncDiv(a, b) == IF a >= 0 THEN a \div b ELSE 0 - ((0 - a) \div b)

\* The 32-bit two's complement encoding of v, least significant byte first.
Enc32(v) ==
  LET u == IF v < 0 THEN (v + 2147483647) + 1 ELSE v
      top == (u \div 16777216) + (IF v < 0 THEN 128 ELSE 0)
  IN <<u % 256, (u \div 256) % 256, (u \div 65536) % 256, top>>

\* The int32_t value of a word.
Dec32(w) ==
  w[1] + 256 * w[2] + 65536 * w[3]
    + 16777216 * (IF w[4] >= 128 THEN w[4] - 256 ELSE w[4])

SENTINEL == <<255, 255, 255, 255>>

(****************************** the wire ***********************************)
\* What the sender transmits: a call sign (its first byte and the six bytes
\* after it), a position given as an offset from the reference point in
\* 1e-4 degrees and an altitude in 1e-4 units.  WireRecord pads a one-letter
\* call sign with blanks and flies at altitude 0.
BLANKS == <<SPACE, SPACE, SPACE, SPACE, SPACE, SPACE>>
WireRecord(cs, dlon, dlat) ==
  [end |-> FALSE, cs |-> cs, rest |-> BLANKS, dlon |-> dlon, dlat |-> dlat,
   alt |-> 0]
WireRecordId(id, dlon, dlat) ==
  [end |-> FALSE, cs |-> id[1], rest |-> SubSeq(id, 2, 7),
   dlon |-> dlon, dlat |-> dlat, alt |-> 0]
WireRecordAlt(cs, alt) ==
  [end |-> FALSE, cs |-> cs, rest |-> BLANKS, dlon |-> 0, dlat |-> 0,
   alt |-> alt]
RecA == WireRecord(65, 0, 0)
RecB == WireRecord(66, 4000, 2000)
RecC == WireRecord(67, 0 - 3000, 1000)
RecD == WireRecord(68, 1000, 0 - 3000)
RecF == WireRecord(70, 8000, 0)
RecE == WireRecord(69, 0, 0 - 1000)
WireRecords == {RecA, RecB}
\* The end-of-burst message.
END == [end |-> TRUE, cs |-> 0, rest |-> BLANKS, dlon |-> 0, dlat |-> 0,
        alt |-> 0]

\* The 28 bytes of a wire record: 7 ASCII call sign bytes and a pad byte,
\* then longitude, latitude, altitude, speed and heading times 10000.
RecordBytes(r) ==
  <<r.cs>> \o r.rest \o <<0>>
    \o Enc32(CENTER_LONGITUDE + r.dlon) \o Enc32(CENTER_LATITUDE + r.dlat)
    \o Enc32(r.alt) \o Enc32(0) \o Enc32(0)

MessageBytes(m) == IF m.end THEN SENTINEL ELSE RecordBytes(m)

\* Every stream of n messages.
Streams(n) == [1..n -> WireRecords \cup {END}]

\* Every burst of at most n of the given records, closed by its end word.
RECURSIVE Bursts(_, _)
Bursts(records, n) ==
  IF n = 0 THEN {<<END>>}
  ELSE {<<END>>} \cup {<<r>> \o b : r \in records, b \in Bursts(records, n - 1)}

VARIABLES
  wire,                 \* bytes sent and not yet received by the UART
  feed,                 \* the messages the sender has still to send
  paced,                \* the sender waits for each message to be consumed
  bursts,               \* history: the bursts sent and not yet committed;
                        \* the last one is still open
  byte_buffer,          \* UART4_Handler's static byte_buffer[4]
  byte_index,           \* UART4_Handler's static byte_index
  message_byte_count,   \* UART4_Handler's static message_byte_count
  fifo,                 \* the words of DATA_FIFO
  lostData,             \* words DATA_FIFO refused because it was full
  sem,                  \* the value of each semaphore
  stagingAircrafts, stagingAircraftCount,
  currentAircrafts, currentAircraftCount,
  selectedAircraft,
  display_range_km, display_track, display_callsign,
  intEnabled,           \* whether the joystick and button interrupts are enabled
  pc,                   \* where each thread is
  d_words,              \* decoder: the words read for this record
  d_data,               \* decoder: aircraftData
  d_idx,                \* decoder: the staging index read by the append
  stackJunk,            \* decoder: what its frame's unassigned bytes hold
  u_sel,                \* commit: SelectedCallSign (a slot or NA_LITERAL)
  u_callsign,           \* commit: the string SelectedCallSign pointed to
  u_i,                  \* commit: the copy loop's i
  u_before,             \* history: staging count when the commit began
  u_expect,             \* history: the burst this commit is for
  r_i,                  \* projector: the loop's i, per calling thread
  r_stable,             \* history: no radius change since the projection began
  s_i, s_min, s_cand,   \* selector: loop index, min_distance, candidate
  s_sample,             \* selector: the joystick sample being processed
  s_from,               \* history: the selection the candidate was computed from
  joystick_debounce,
  pressesLeft, samplesLeft, buttonsLeft,  \* inputs the operator may still give
  held,                 \* history: samples outside the deadzone read in a
                        \* row since the last neutral one (2 for more)
  nReady, nBurst,       \* history: events the handler has emitted
  nDecode, nCommit,     \* history: decodes and commits begun
  overflows             \* staging overflows reported

vars == <<wire, feed, paced, bursts, byte_buffer, byte_index,
          message_byte_count, fifo, lostData, sem,
          stagingAircrafts, stagingAircraftCount,
          currentAircrafts, currentAircraftCount, selectedAircraft,
          display_range_km, display_track, display_callsign, intEnabled,
          pc, d_words, d_data, d_idx, stackJunk, u_sel, u_callsign, u_i, u_before,
          u_expect,
          r_i, r_stable, s_i, s_min, s_cand, s_sample, s_from,
          joystick_debounce, pressesLeft, samplesLeft, buttonsLeft, held,
          nReady, nBurst, nDecode, nCommit, overflows>>

wireVars == <<wire, feed, paced, bursts>>
isrVars == <<byte_buffer, byte_index, message_byte_count>>
stagingVars == <<stagingAircrafts, stagingAircraftCount>>
liveVars == <<currentAircrafts, currentAircraftCount>>
decVars == <<d_words, d_data, d_idx, stackJunk>>
updVars == <<u_sel, u_callsign, u_i, u_before, u_expect>>
projVars == <<r_i, r_stable>>
selVars == <<s_i, s_min, s_cand, s_sample, s_from, joystick_debounce>>
inputVars == <<pressesLeft, samplesLeft, buttonsLeft, held>>
countVars == <<nReady, nBurst, nDecode, nCommit>>
cfgVars == <<display_range_km, display_track, display_callsign, intEnabled>>

(***************************** records *************************************)
\* A zero-initialised AircraftData_t (the arrays are globals).
\* The string literal "N/A".
NA_STRING == <<78, 47, 65, 0>>

ZeroAircraft ==
  [callsign |-> <<0, 0, 0, 0, 0, 0, 0, 0>>, longitude |-> 0, latitude |-> 0,
   altitude |-> 0, velocity |-> 0, heading |-> 0,
   screen_x |-> 0, screen_y |-> 0, on_screen |-> FALSE]

\* The bytes an uninitialised stack location may hold.
StackJunk == {0, 1}

\* main.c's G8RTOS_InitSemaphore calls.
\* The semaphores with a record-ready signal already posted.
InitSemaphoresPosted ==
  [s \in {"CURRENT_AIRCRAFTS", "STAGING_AIRCRAFTS", "MAIN_DISPLAY",
          "INFO_DISPLAY", "DATA_READY", "BURST_COMPLETE",
          "PCA9555_Debounce", "Joystick_Debounce"} |->
     IF s \in {"BURST_COMPLETE", "PCA9555_Debounce", "Joystick_Debounce"}
       THEN 0 ELSE 1]

InitSemaphores ==
  [s \in {"DATA_READY", "BURST_COMPLETE", "CURRENT_AIRCRAFTS",
          "STAGING_AIRCRAFTS", "MAIN_DISPLAY", "INFO_DISPLAY",
          "PCA9555_Debounce", "Joystick_Debounce"} |->
     IF s \in {"CURRENT_AIRCRAFTS", "STAGING_AIRCRAFTS",
               "MAIN_DISPLAY", "INFO_DISPLAY"} THEN 1 ELSE 0]

\* G8RTOS_WaitSemaphore and G8RTOS_SignalSemaphore: a counting semaphore.
WaitSemaphore(s) == sem[s] > 0 /\ sem' = [sem EXCEPT ![s] = @ - 1]
SignalSemaphore(s) == sem' = [sem EXCEPT ![s] = @ + 1]

Goto(t, l) == pc' = [pc EXCEPT ![t] = l]

\* The state when G8RTOS_Launch is called, with the inputs the run may get.
Launch(feeds, pacing, presses, samples, buttons) ==
  /\ wire = <<>> /\ bursts = << <<>> >>
  /\ feed \in feeds /\ paced = pacing
  /\ pressesLeft = presses /\ samplesLeft = samples /\ buttonsLeft = buttons
  /\ byte_buffer = <<0, 0, 0, 0>> /\ byte_index = 0 /\ message_byte_count = 0
  /\ fifo = <<>> /\ lostData = 0
  /\ sem = InitSemaphores
  /\ stagingAircrafts = [i \in Slots |-> ZeroAircraft]
  /\ stagingAircraftCount = 0
  /\ currentAircrafts = [i \in Slots |-> ZeroAircraft]
  /\ currentAircraftCount = 0
  /\ selectedAircraft = NONE
  /\ display_range_km = INITIAL_RANGE
  /\ display_track = TRUE /\ display_callsign = TRUE
  /\ intEnabled = [h \in {"joystick", "buttons"} |-> TRUE]
  /\ pc = [t \in Threads |->
             CASE t = "dec" -> "d_wait" [] t = "upd" -> "u_wait"
               [] t = "sel" -> "s_top" [] t = "rng" -> "b_wait"
               [] t = "dsp" -> "m_wait" [] t = "inf" -> "i_wait"]
  /\ d_words = <<>> /\ d_data = ZeroAircraft /\ d_idx = 0
  /\ stackJunk \in StackJunk
  /\ u_sel = NA_LITERAL /\ u_callsign = NA_STRING
  /\ u_i = 0 /\ u_before = 0 /\ u_expect = <<>>
  /\ r_i = [t \in Projectors |-> 0] /\ r_stable = TRUE
  /\ s_i = 0 /\ s_min = 0 /\ s_cand = NONE /\ s_sample = <<MIDPOINT, MIDPOINT>>
  /\ s_from = NONE
  /\ joystick_debounce = TRUE /\ held = 0
  /\ nReady = 0 /\ nBurst = 0 /\ nDecode = 0 /\ nCommit = 0
  /\ overflows = 0

Init == Launch(Streams(MaxMessages), FALSE, MaxPresses, MaxSamples, MaxButtons)

(************************* the sender (environment) ************************)
\* Every message received so far has been decoded or committed and the
\* threads of the pipeline are back at their waits.
Consumed ==
  /\ pc["dec"] = "d_wait" /\ sem["DATA_READY"] = 0 /\ fifo = <<>>
  /\ pc["upd"] = "u_wait" /\ sem["BURST_COMPLETE"] = 0

\* The sender transmits its next message once the previous one is received,
\* and a paced sender once it is consumed as well.
Transmit ==
  /\ wire = <<>>
  /\ feed # <<>>
  /\ paced => Consumed
  /\ paced' = paced
  /\ wire' = MessageBytes(Head(feed))
  /\ feed' = Tail(feed)
  /\ bursts' = IF Head(feed).end
                 THEN Append(bursts, <<>>)
                 ELSE [bursts EXCEPT ![Len(bursts)] = Append(@, Head(feed))]
  /\ UNCHANGED <<isrVars, fifo, lostData, sem, stagingVars, liveVars,
                 selectedAircraft, cfgVars, pc, decVars, updVars,
                 projVars, selVars, inputVars, countVars, overflows>>

\* The words of every message received so far have left the queue: the
\* decoder may still be appending its record and the commit may be running.
Drained ==
  /\ pc["dec"] # "d_read" /\ sem["DATA_READY"] = 0 /\ fifo = <<>>

\* A sender that transmits its next message once the queue is drained.
TransmitDrained == Drained /\ Transmit

(***************************** UART4_Handler *******************************)
\* G8RTOS_WriteFIFO: the word is dropped when the FIFO is full.
WriteFIFO(q, w) == IF Len(q) < FIFO_SIZE THEN Append(q, w) ELSE q

\* The loop iteration of a handler that does not count the words the
\* full FIFO refuses.
HandlerByteSilent(st, b) ==
  LET buf == [st.buf EXCEPT ![st.idx + 1] = b]
      idx == st.idx + 1
      cnt == (st.cnt + 1) % 256
      full == idx = WORD_BYTES
      isEnd == full /\ buf = SENTINEL
      push == full /\ ~isEnd
      cnt2 == IF isEnd THEN 0 ELSE cnt
      ready == cnt2 >= MESSAGE_SIZE
  IN [buf |-> buf,
      idx |-> IF full THEN 0 ELSE idx,
      cnt |-> IF ready THEN 0 ELSE cnt2,
      fifo |-> IF push THEN WriteFIFO(st.fifo, buf) ELSE st.fifo,
      lost |-> st.lost,
      burst |-> IF isEnd THEN st.burst + 1 ELSE st.burst,
      ready |-> IF ready THEN st.ready + 1 ELSE st.ready]

\* The loop iteration of a handler that queues the end-of-burst word like
\* any other word.
HandlerByteQueueAll(st, b) ==
  LET buf == [st.buf EXCEPT ![st.idx + 1] = b]
      idx == st.idx + 1
      cnt == (st.cnt + 1) % 256
      full == idx = WORD_BYTES
      isEnd == full /\ buf = SENTINEL
      cnt2 == IF isEnd THEN 0 ELSE cnt
      ready == cnt2 >= MESSAGE_SIZE
  IN [buf |-> buf,
      idx |-> IF full THEN 0 ELSE idx,
      cnt |-> IF ready THEN 0 ELSE cnt2,
      fifo |-> IF full THEN WriteFIFO(st.fifo, buf) ELSE st.fifo,
      lost |-> IF full /\ Len(st.fifo) >= FIFO_SIZE THEN st.lost + 1 ELSE st.lost,
      burst |-> IF isEnd THEN st.burst + 1 ELSE st.burst,
      ready |-> IF ready THEN st.ready + 1 ELSE st.ready]

\* A test that takes the record as complete one word early.
RecordCompleteEarly(cnt) == cnt >= MESSAGE_SIZE - WORD_BYTES

\* message_byte_count >= MESSAGE_SIZE
RecordComplete(cnt) == cnt >= MESSAGE_SIZE

\* One iteration of the handler's while loop, on received byte b.  st holds
\* the statics, the FIFO and the signals issued so far in this invocation.
HandlerByte(st, b) ==
  LET buf == [st.buf EXCEPT ![st.idx + 1] = b]
      idx == st.idx + 1
      cnt == (st.cnt + 1) % 256
      full == idx = WORD_BYTES
      isEnd == full /\ buf = SENTINEL
      push == full /\ ~isEnd
      cnt2 == IF isEnd THEN 0 ELSE cnt
      ready == RecordComplete(cnt2)
  IN [buf |-> buf,
      idx |-> IF full THEN 0 ELSE idx,
      cnt |-> IF ready THEN 0 ELSE cnt2,
      fifo |-> IF push THEN WriteFIFO(st.fifo, buf) ELSE st.fifo,
      lost |-> IF push /\ Len(st.fifo) >= FIFO_SIZE THEN st.lost + 1 ELSE st.lost,
      burst |-> IF isEnd THEN st.burst + 1 ELSE st.burst,
      ready |-> IF ready THEN st.ready + 1 ELSE st.ready]

\* The iterations of the while loop over the bytes the UART holds, each one
\* starting from the state the one before it left.
RECURSIVE HandlerLoop(_, _)
HandlerLoop(st, bytes) ==
  IF bytes = <<>> THEN st
  ELSE CHOOSE end \in { HandlerLoop(nx, Tail(bytes)) :
                           nx \in {HandlerByte(st, Head(bytes))} } : TRUE

\* A handler that waits for room in the FIFO before it takes the bytes.
UART4_HandlerWaits ==
  /\ wire # <<>>
  /\ Len(fifo) < FIFO_SIZE
  /\ LET n == IF Len(wire) < RxChunk THEN Len(wire) ELSE RxChunk
         st == HandlerLoop([buf |-> byte_buffer, idx |-> byte_index,
                            cnt |-> message_byte_count, fifo |-> fifo,
                            lost |-> lostData, burst |-> 0, ready |-> 0],
                           SubSeq(wire, 1, n))
     IN /\ wire' = SubSeq(wire, n + 1, Len(wire))
        /\ byte_buffer' = st.buf
        /\ byte_index' = st.idx
        /\ message_byte_count' = st.cnt
        /\ fifo' = st.fifo
        /\ lostData' = st.lost
        /\ sem' = [sem EXCEPT !["BURST_COMPLETE"] = @ + st.burst,
                              !["DATA_READY"] = @ + st.ready]
        /\ nBurst' = nBurst + st.burst
        /\ nReady' = nReady + st.ready
  /\ UNCHANGED <<feed, paced, bursts, stagingVars, liveVars,
                 selectedAircraft, cfgVars, pc, decVars, updVars,
                 projVars, selVars, inputVars, nDecode, nCommit, overflows>>

\* One invocation of the interrupt handler: it drains the bytes the UART
\* holds and runs to completion.
UART4_Handler ==
  /\ wire # <<>>
  /\ LET n == IF Len(wire) < RxChunk THEN Len(wire) ELSE RxChunk
         st == HandlerLoop([buf |-> byte_buffer, idx |-> byte_index,
                            cnt |-> message_byte_count, fifo |-> fifo,
                            lost |-> lostData, burst |-> 0, ready |-> 0],
                           SubSeq(wire, 1, n))
     IN /\ wire' = SubSeq(wire, n + 1, Len(wire))
        /\ byte_buffer' = st.buf
        /\ byte_index' = st.idx
        /\ message_byte_count' = st.cnt
        /\ fifo' = st.fifo
        /\ lostData' = st.lost
        /\ sem' = [sem EXCEPT !["BURST_COMPLETE"] = @ + st.burst,
                              !["DATA_READY"] = @ + st.ready]
        /\ nBurst' = nBurst + st.burst
        /\ nReady' = nReady + st.ready
  /\ UNCHANGED <<feed, paced, bursts, stagingVars, liveVars,
                 selectedAircraft, cfgVars, pc, decVars, updVars,
                 projVars, selVars, inputVars, nDecode, nCommit, overflows>>

(********************** Process_New_Aircraft_Thread ************************)
\* strncpy(dst, src, 8): bytes up to the first NUL, then NUL padding.
StrNCpy8(src) ==
  [i \in 1..8 |-> IF \A k \in 1..i : src[k] # 0 THEN src[i] ELSE 0]

\* "N/A    " and its terminator.
NA_CALLSIGN == <<78, 47, 65, 32, 32, 32, 32, 0>>

\* Byte i (1..7) of callsign_raw = ((int64_t)high_byte << 32) | low_byte:
\* low_byte is an int32_t and is sign-extended before the or.
CallsignByte(low, high, i) ==
  IF i <= 4 THEN low[i]
  ELSE IF low[4] >= 128 THEN 255 ELSE high[i - 4]

\* A local callsign[8] that keeps a call sign starting with a blank.
LocalCallsignKept(low, high, junk) ==
  [i \in 1..8 |-> IF i <= 7 THEN CallsignByte(low, high, i) ELSE junk]

\* The local callsign[8]: bytes 0..6 are set, byte 7 is left as found.
LocalCallsign(low, high, junk) ==
  LET raw == [i \in 1..8 |-> IF i <= 7 THEN CallsignByte(low, high, i) ELSE junk]
  IN IF raw[1] = SPACE THEN NA_CALLSIGN ELSE raw

\* aircraftData as packed from the seven words; screen_x, screen_y and
\* on_screen are not assigned and hold what the stack held.
DecodeRecord(words, junk) ==
  [callsign |-> StrNCpy8(LocalCallsign(words[1], words[2], junk)),
   longitude |-> Dec32(words[3]), latitude |-> Dec32(words[4]),
   altitude |-> Dec32(words[5]), velocity |-> Dec32(words[6]),
   heading |-> Dec32(words[7]),
   screen_x |-> 257 * junk, screen_y |-> 257 * junk, on_screen |-> junk # 0]

\* 2^n, and the number of bits of n >= 0.
RECURSIVE Pow2(_)
Pow2(n) == IF n = 0 THEN 1 ELSE 2 * Pow2(n - 1)

RECURSIVE BitLength(_)
BitLength(n) == IF n = 0 THEN 0 ELSE 1 + BitLength(n \div 2)

\* (float)v for an int32_t v: v rounded to FLOAT_BITS significant bits, to
\* nearest, ties to even.
FloatOfInt(v) ==
  LET a == Abs(v)
      u == IF BitLength(a) > FLOAT_BITS
             THEN Pow2(BitLength(a) - FLOAT_BITS) ELSE 1
      q == a \div u
      r == a % u
      up == 2 * r > u \/ (2 * r = u /\ q % 2 = 1)
      f == (IF up THEN q + 1 ELSE q) * u
  IN IF v < 0 THEN 0 - f ELSE f

\* SCALE = 16 * 625: a division by SCALE is a division by 625 and a shift.
SCALE_ODD == SCALE \div 16

\* The quotient q, remainder r of a * 2^s by SCALE_ODD, doubled until q has
\* FLOAT_BITS bits.
RECURSIVE Normalise(_, _, _)
Normalise(q, r, s) ==
  IF q >= Pow2(FLOAT_BITS - 1) THEN [q |-> q, r |-> r, s |-> s]
  ELSE Normalise(2 * q + (2 * r) \div SCALE_ODD, (2 * r) % SCALE_ODD, s + 1)

\* f / 10000.0f for a float f that holds an integer: the quotient rounded to
\* FLOAT_BITS significant bits (SCALE_ODD is odd: no ties).  Its magnitude is
\* man * 2^(-exp) / 16; err is man * SCALE_ODD - |f| * 2^exp, the rounding
\* error of the division in units of 2^(-exp) / SCALE.
DivideByScale(f) ==
  IF f = 0 THEN [man |-> 0, exp |-> 0, err |-> 0]
  ELSE LET n == Normalise(Abs(f) \div SCALE_ODD, Abs(f) % SCALE_ODD, 0)
           up == 2 * n.r > SCALE_ODD
       IN [man |-> IF up THEN n.q + 1 ELSE n.q,
           exp |-> n.s,
           err |-> (IF up THEN SCALE_ODD ELSE 0) - n.r]

\* G8RTOS_WaitSemaphore(&sem_DATA_READY)
Dec_Wait ==
  /\ pc["dec"] = "d_wait"
  /\ WaitSemaphore("DATA_READY")
  /\ nDecode' = nDecode + 1
  /\ d_words' = <<>>
  /\ Goto("dec", "d_read")
  /\ UNCHANGED <<wireVars, isrVars, fifo, lostData, stagingVars, liveVars,
                 selectedAircraft, cfgVars, d_data, d_idx, stackJunk, updVars,
                 projVars, selVars, inputVars, nReady, nBurst, nCommit,
                 overflows>>

\* One G8RTOS_ReadFIFO(DATA_FIFO): it blocks while the FIFO is empty.  The
\* seventh read is followed by the packing of aircraftData.
Dec_ReadFIFO ==
  /\ pc["dec"] = "d_read"
  /\ fifo # <<>>
  /\ fifo' = Tail(fifo)
  /\ d_words' = Append(d_words, Head(fifo))
  /\ IF Len(d_words) + 1 = RECORD_WORDS
       THEN /\ d_data' = DecodeRecord(Append(d_words, Head(fifo)), stackJunk)
            /\ Goto("dec", "d_check")
       ELSE /\ d_data' = d_data
            /\ UNCHANGED pc
  /\ UNCHANGED <<wireVars, isrVars, lostData, sem, stagingVars, liveVars,
                 selectedAircraft, cfgVars, d_idx, stackJunk, updVars,
                 projVars, selVars, inputVars, countVars, overflows>>

\* A test that also admits a full array.
HasRoomInclusive(count) == count <= MAX_AIRCRAFTS

\* stagingAircraftCount < MAX_AIRCRAFTS
HasRoom(count) == count < MAX_AIRCRAFTS

\* if (stagingAircraftCount < MAX_AIRCRAFTS) ... else "Staging array overflow!"
Dec_Check ==
  /\ pc["dec"] = "d_check"
  /\ IF HasRoom(stagingAircraftCount)
       THEN /\ d_idx' = stagingAircraftCount
            /\ Goto("dec", "d_store")
            /\ UNCHANGED overflows
       ELSE /\ overflows' = overflows + 1
            /\ Goto("dec", "d_wait")
            /\ UNCHANGED d_idx
  /\ UNCHANGED <<wireVars, isrVars, fifo, lostData, sem, stagingVars,
                 liveVars, selectedAircraft, cfgVars, d_words,
                 d_data, stackJunk, updVars, projVars, selVars, inputVars, countVars>>

\* stagingAircrafts[stagingAircraftCount++] = aircraftData
Dec_Store ==
  /\ pc["dec"] = "d_store"
  /\ stagingAircrafts' = [stagingAircrafts EXCEPT ![d_idx] = d_data]
  /\ stagingAircraftCount' = d_idx + 1
  /\ Goto("dec", "d_wait")
  /\ UNCHANGED <<wireVars, isrVars, fifo, lostData, sem, liveVars,
                 selectedAircraft, cfgVars, decVars, updVars,
                 projVars, selVars, inputVars, countVars, overflows>>

(************************ recalculate_screen_positions *********************)
\* distance_latitude_km and distance_longitude_km, in units of 10 m.
DistanceLatitude(a) ==
  TruncDiv((a.latitude - CENTER_LATITUDE) * KM_PER_DEGREE_LAT, 10000)
DistanceLongitude(a) ==
  TruncDiv((a.longitude - CENTER_LONGITUDE) * KM_PER_DEGREE_LON, 10000)

\* distance_from_center > display_range_km.  An offset of more than 3
\* degrees (30000) is farther than MAX_RANGE km whatever the direction.
OutOfRange(a, range) ==
  \/ Abs(a.latitude - CENTER_LATITUDE) > 30000
  \/ Abs(a.longitude - CENTER_LONGITUDE) > 30000
  \/ DistanceLatitude(a) * DistanceLatitude(a)
       + DistanceLongitude(a) * DistanceLongitude(a)
     > (range * 100) * (range * 100)

RADAR_CENTER_X == X_MAX \div 2
RADAR_CENTER_Y == RADAR_TOP + ((RADAR_BOTTOM - RADAR_TOP + 1) \div 2)

\* pixel_distance * cosf(angle) is the longitude offset times the scale
\* max_pixel_radius / display_range_km, and sinf gives the latitude offset.
ScreenX(a, range) ==
  Abs(RADAR_CENTER_X
      + TruncDiv(DistanceLongitude(a) * MAX_PIXEL_RADIUS, range * 100))
ScreenY(a, range) ==
  Abs(RADAR_CENTER_Y
      - TruncDiv(DistanceLatitude(a) * MAX_PIXEL_RADIUS, range * 100))

\* A projection that moves the previous screen position instead of
\* replacing it.
ProjectedAccumulating(a, range) ==
  [a EXCEPT !.on_screen = TRUE,
            !.screen_x = (a.screen_x + ScreenX(a, range)) % 65536,
            !.screen_y = (a.screen_y + ScreenY(a, range)) % 65536]

\* The loop body for one aircraft in range.
Projected(a, range) ==
  [a EXCEPT !.on_screen = TRUE,
            !.screen_x = ScreenX(a, range), !.screen_y = ScreenY(a, range)]

\* One iteration of the loop: st holds the live array and the selection.
ProjectorBody(st, i, range) ==
  LET a == st.live[i]
  IN IF OutOfRange(a, range)
       THEN [live |-> [st.live EXCEPT ![i].on_screen = FALSE],
             sel |-> IF i = st.sel THEN NONE ELSE st.sel]
       ELSE [live |-> [st.live EXCEPT ![i] = Projected(a, range)],
             sel |-> st.sel]

RECURSIVE ProjectorLoop(_, _, _, _)
ProjectorLoop(st, i, count, range) ==
  IF i < count
    THEN ProjectorLoop(ProjectorBody(st, i, range), i + 1, count, range)
    ELSE st

\* A whole call of recalculate_screen_positions run without interruption.
recalculate_screen_positions(live, count, sel, range) ==
  ProjectorLoop([live |-> live, sel |-> sel], 0, count, range)

AfterProjector(t) == IF t = "upd" THEN "u_redraw" ELSE "b_redraw"

\* G8RTOS_WaitSemaphore(&sem_CURRENT_AIRCRAFTS)
Proj_Lock(t) ==
  /\ pc[t] = "r_lock"
  /\ WaitSemaphore("CURRENT_AIRCRAFTS")
  /\ r_i' = [r_i EXCEPT ![t] = 0]
  /\ r_stable' = IF t = "upd" THEN TRUE ELSE r_stable
  /\ Goto(t, "r_loop")
  /\ UNCHANGED <<wireVars, isrVars, fifo, lostData, stagingVars, liveVars,
                 selectedAircraft, cfgVars, decVars, updVars,
                 selVars, inputVars, countVars, overflows>>

\* One iteration of the loop over currentAircrafts, or its exit.
Proj_Record(t) ==
  /\ pc[t] = "r_loop"
  /\ IF r_i[t] < currentAircraftCount
       THEN LET i == r_i[t]
                a == currentAircrafts[i]
                step == ProjectorBody([live |-> currentAircrafts,
                                       sel |-> selectedAircraft],
                                      i, display_range_km)
            IN /\ r_i' = [r_i EXCEPT ![t] = i + 1]
               /\ UNCHANGED pc
               /\ currentAircrafts' = step.live
               /\ selectedAircraft' = step.sel
               /\ IF OutOfRange(a, display_range_km) /\ i = selectedAircraft
                    THEN SignalSemaphore("INFO_DISPLAY")
                    ELSE UNCHANGED sem
       ELSE /\ Goto(t, "r_unlock")
            /\ UNCHANGED <<r_i, currentAircrafts, selectedAircraft, sem>>
  /\ UNCHANGED <<wireVars, isrVars, fifo, lostData, stagingVars,
                 currentAircraftCount, cfgVars, decVars, updVars,
                 r_stable, selVars, inputVars, countVars, overflows>>

\* G8RTOS_SignalSemaphore(&sem_CURRENT_AIRCRAFTS)
Proj_Unlock(t) ==
  /\ pc[t] = "r_unlock"
  /\ SignalSemaphore("CURRENT_AIRCRAFTS")
  /\ Goto(t, AfterProjector(t))
  /\ UNCHANGED <<wireVars, isrVars, fifo, lostData, stagingVars, liveVars,
                 selectedAircraft, cfgVars, decVars, updVars,
                 projVars, selVars, inputVars, countVars, overflows>>

(******************** Update_Current_Aircrafts_Thread **********************)
\* G8RTOS_WaitSemaphore(&sem_BURST_COMPLETE)
Upd_Wait ==
  /\ pc["upd"] = "u_wait"
  /\ WaitSemaphore("BURST_COMPLETE")
  /\ nCommit' = nCommit + 1
  /\ u_expect' = Head(bursts)
  /\ bursts' = IF Len(bursts) > 1 THEN Tail(bursts) ELSE bursts
  /\ Goto("upd", "u_lockcur")
  /\ UNCHANGED <<wire, feed, paced, isrVars, fifo, lostData,
                 stagingVars, liveVars, selectedAircraft, cfgVars, decVars,
                 u_sel, u_callsign, u_i, u_before, projVars, selVars,
                 inputVars, nReady, nBurst, nDecode,
                 overflows>>

\* G8RTOS_WaitSemaphore(&sem_CURRENT_AIRCRAFTS)
Upd_LockCurrent ==
  /\ pc["upd"] = "u_lockcur"
  /\ WaitSemaphore("CURRENT_AIRCRAFTS")
  /\ Goto("upd", "u_lockstg")
  /\ UNCHANGED <<wireVars, isrVars, fifo, lostData, stagingVars, liveVars,
                 selectedAircraft, cfgVars, decVars, updVars,
                 projVars, selVars, inputVars, countVars, overflows>>

\* G8RTOS_WaitSemaphore(&sem_STAGING_AIRCRAFTS)
Upd_LockStaging ==
  /\ pc["upd"] = "u_lockstg"
  /\ WaitSemaphore("STAGING_AIRCRAFTS")
  /\ u_before' = stagingAircraftCount
  /\ Goto("upd", "u_capture")
  /\ UNCHANGED <<wireVars, isrVars, fifo, lostData, stagingVars, liveVars,
                 selectedAircraft, cfgVars, decVars, u_sel, u_callsign, u_i,
                 u_expect,
                 projVars, selVars, inputVars, countVars, overflows>>

\* SelectedCallSign: the address of the selected slot's callsign, or of the
\* literal "N/A".
CapturedCallSign ==
  IF selectedAircraft # NONE /\ selectedAircraft >= 0
       /\ selectedAircraft < currentAircraftCount
    THEN selectedAircraft
    ELSE NA_LITERAL

Upd_Capture ==
  /\ pc["upd"] = "u_capture"
  /\ u_sel' = CapturedCallSign
  /\ u_callsign' = IF CapturedCallSign = NA_LITERAL THEN NA_STRING
                    ELSE currentAircrafts[CapturedCallSign].callsign
  /\ u_i' = 0
  /\ Goto("upd", "u_copy")
  /\ UNCHANGED <<wireVars, isrVars, fifo, lostData, sem, stagingVars,
                 liveVars, selectedAircraft, cfgVars, decVars,
                 u_before, u_expect, projVars, selVars, inputVars, countVars, overflows>>

\* currentAircrafts[i].callsign == SelectedCallSign compares two addresses:
\* that of slot i's callsign and the captured one.
SameCallSign(i, captured) == captured = i

\* One iteration of the copy loop, or its exit.
Upd_Copy ==
  /\ pc["upd"] = "u_copy"
  /\ IF u_i < stagingAircraftCount
       THEN /\ currentAircrafts' =
                 [currentAircrafts EXCEPT ![u_i] = stagingAircrafts[u_i]]
            /\ selectedAircraft' =
                 IF SameCallSign(u_i, u_sel) THEN u_i ELSE selectedAircraft
            /\ u_i' = u_i + 1
            /\ UNCHANGED pc
       ELSE /\ Goto("upd", "u_setcount")
            /\ UNCHANGED <<currentAircrafts, selectedAircraft, u_i>>
  /\ UNCHANGED <<wireVars, isrVars, fifo, lostData, sem, stagingVars,
                 currentAircraftCount, cfgVars, decVars, u_sel, u_callsign,
                 u_before, u_expect, projVars, selVars, inputVars, countVars, overflows>>

\* currentAircraftCount = stagingAircraftCount
Upd_SetCount ==
  /\ pc["upd"] = "u_setcount"
  /\ currentAircraftCount' = stagingAircraftCount
  /\ Goto("upd", "u_reset")
  /\ UNCHANGED <<wireVars, isrVars, fifo, lostData, sem, stagingVars,
                 currentAircrafts, selectedAircraft, cfgVars,
                 decVars, updVars, projVars, selVars, inputVars, countVars,
                 overflows>>

\* stagingAircraftCount = 0
Upd_Reset ==
  /\ pc["upd"] = "u_reset"
  /\ stagingAircraftCount' = 0
  /\ Goto("upd", "u_unlockcur")
  /\ UNCHANGED <<wireVars, isrVars, fifo, lostData, sem, stagingAircrafts,
                 liveVars, selectedAircraft, cfgVars, decVars,
                 updVars, projVars, selVars, inputVars, countVars, overflows>>

\* G8RTOS_SignalSemaphore(&sem_CURRENT_AIRCRAFTS)
Upd_UnlockCurrent ==
  /\ pc["upd"] = "u_unlockcur"
  /\ SignalSemaphore("CURRENT_AIRCRAFTS")
  /\ Goto("upd", "u_unlockstg")
  /\ UNCHANGED <<wireVars, isrVars, fifo, lostData, stagingVars, liveVars,
                 selectedAircraft, cfgVars, decVars, updVars,
                 projVars, selVars, inputVars, countVars, overflows>>

\* A commit that releases the staging lock and goes straight to its redraw
\* request.
Upd_UnlockStagingRedraw ==
  /\ pc["upd"] = "u_unlockstg"
  /\ SignalSemaphore("STAGING_AIRCRAFTS")
  /\ Goto("upd", "u_redraw")
  /\ UNCHANGED <<wireVars, isrVars, fifo, lostData, stagingVars, liveVars,
                 selectedAircraft, cfgVars, decVars, updVars,
                 projVars, selVars, inputVars, countVars, overflows>>

\* G8RTOS_SignalSemaphore(&sem_STAGING_AIRCRAFTS), then the call of
\* recalculate_screen_positions
Upd_UnlockStaging ==
  /\ pc["upd"] = "u_unlockstg"
  /\ SignalSemaphore("STAGING_AIRCRAFTS")
  /\ Goto("upd", "r_lock")
  /\ UNCHANGED <<wireVars, isrVars, fifo, lostData, stagingVars, liveVars,
                 selectedAircraft, cfgVars, decVars, updVars,
                 projVars, selVars, inputVars, countVars, overflows>>

\* G8RTOS_SignalSemaphore(&sem_MAIN_DISPLAY)
Upd_Redraw ==
  /\ pc["upd"] = "u_redraw"
  /\ SignalSemaphore("MAIN_DISPLAY")
  /\ Goto("upd", "u_wait")
  /\ UNCHANGED <<wireVars, isrVars, fifo, lostData, stagingVars, liveVars,
                 selectedAircraft, cfgVars, decVars, updVars,
                 projVars, selVars, inputVars, countVars, overflows>>

(*************************** Select_Aircraft_Thread ************************)
\* The joystick positions JOYSTICK_GetXY may return, as <<x, y>>.
JoystickSamples ==
  { <<MIDPOINT, MIDPOINT>>, <<4095, MIDPOINT>>, <<0, MIDPOINT>>,
    <<MIDPOINT, 4095>>, <<MIDPOINT, 0>>, <<4095, 4095>> }

IsNeutral(xy) ==
  /\ xy[1] > MIDPOINT - DEADZONE /\ xy[1] < MIDPOINT + DEADZONE
  /\ xy[2] > MIDPOINT - DEADZONE /\ xy[2] < MIDPOINT + DEADZONE

\* goingWest, goingEast, goingSouth, goingNorth of closest_aircraft_by_angle
Direction(xy) ==
  LET dx == xy[1] - MIDPOINT
      dy == xy[2] - MIDPOINT
  IN IF Abs(dx) > Abs(dy) /\ dx > 0 THEN "west"
     ELSE IF Abs(dx) > Abs(dy) /\ dx < 0 THEN "east"
     ELSE IF Abs(dy) > Abs(dx) /\ dy > 0 THEN "south"
     ELSE IF Abs(dy) > Abs(dx) /\ dy < 0 THEN "north"
     ELSE "none"

FLT_MAX == 2147483647

\* The loop body with the west and south deltas compared as signed values.
ClosestBodySigned(acc, i, sel, dir) ==
  LET a == currentAircrafts[i]
      deltaLon == a.longitude - currentAircrafts[sel].longitude
      deltaLat == a.latitude - currentAircrafts[sel].latitude
      diff == IF dir = "east" /\ deltaLon > 0 THEN deltaLon
              ELSE IF dir = "west" /\ deltaLon < 0 THEN deltaLon
              ELSE IF dir = "north" /\ deltaLat > 0 THEN deltaLat
              ELSE IF dir = "south" /\ deltaLat < 0 THEN deltaLat
              ELSE NONE
  IN IF i = sel \/ ~a.on_screen \/ diff = NONE THEN acc
     ELSE IF diff < acc.min THEN [idx |-> i, min |-> diff]
     ELSE acc

\* The loop body of closest_aircraft_by_angle for index i: acc holds
\* closestIndex and minDifference.
ClosestBody(acc, i, sel, dir) ==
  LET a == currentAircrafts[i]
      deltaLon == a.longitude - currentAircrafts[sel].longitude
      deltaLat == a.latitude - currentAircrafts[sel].latitude
      diff == IF dir = "east" /\ deltaLon > 0 THEN deltaLon
              ELSE IF dir = "west" /\ deltaLon < 0 THEN Abs(deltaLon)
              ELSE IF dir = "north" /\ deltaLat > 0 THEN deltaLat
              ELSE IF dir = "south" /\ deltaLat < 0 THEN Abs(deltaLat)
              ELSE NONE
  IN IF i = sel \/ ~a.on_screen \/ diff = NONE THEN acc
     ELSE IF diff < acc.min THEN [idx |-> i, min |-> diff]
     ELSE acc

RECURSIVE ClosestLoop(_, _, _, _)
ClosestLoop(acc, i, sel, dir) ==
  IF i < currentAircraftCount
    THEN ClosestLoop(ClosestBody(acc, i, sel, dir), i + 1, sel, dir)
    ELSE acc

\* closest_aircraft_by_angle returning closestIndex as it stands.
closest_or_none(xy) ==
  IF selectedAircraft = NONE THEN NONE
  ELSE ClosestLoop([idx |-> NONE, min |-> FLT_MAX], 0,
                   selectedAircraft, Direction(xy)).idx

closest_aircraft_by_angle(xy) ==
  IF selectedAircraft = NONE THEN NONE
  ELSE LET found == ClosestLoop([idx |-> NONE, min |-> FLT_MAX], 0,
                                selectedAircraft, Direction(xy))
       IN IF found.idx = NONE THEN selectedAircraft ELSE found.idx

\* Joystick_Button_Handler
Joystick_Button_Handler ==
  /\ intEnabled["joystick"]
  /\ pressesLeft > 0
  /\ pressesLeft' = pressesLeft - 1
  /\ intEnabled' = [intEnabled EXCEPT !["joystick"] = FALSE]
  /\ SignalSemaphore("Joystick_Debounce")
  /\ UNCHANGED <<wireVars, isrVars, fifo, lostData, stagingVars, liveVars,
                 selectedAircraft, display_range_km, display_track,
                 display_callsign, pc, decVars, updVars, projVars, selVars,
                 samplesLeft, buttonsLeft, held, countVars, overflows>>

\* if (selectedAircraft == -1) at the top of the loop
Sel_Top ==
  /\ pc["sel"] = "s_top"
  /\ Goto("sel", IF selectedAircraft = NONE THEN "s_press" ELSE "s_sample")
  /\ UNCHANGED <<wireVars, isrVars, fifo, lostData, sem, stagingVars,
                 liveVars, selectedAircraft, cfgVars, decVars, updVars,
                 projVars, selVars, inputVars, countVars, overflows>>

\* G8RTOS_WaitSemaphore(&sem_Joystick_Debounce), then JOYSTICK_GetPress()
Sel_Press ==
  /\ pc["sel"] = "s_press"
  /\ WaitSemaphore("Joystick_Debounce")
  /\ \E press_status \in BOOLEAN :
       IF press_status
         THEN /\ s_min' = FLT_MAX
              /\ Goto("sel", "s_lock")
         ELSE /\ s_min' = s_min
              /\ Goto("sel", "s_enable")
  /\ UNCHANGED <<wireVars, isrVars, fifo, lostData, stagingVars, liveVars,
                 selectedAircraft, cfgVars, decVars, updVars, projVars,
                 s_i, s_cand, s_sample, s_from, joystick_debounce,
                 inputVars, countVars, overflows>>

\* G8RTOS_WaitSemaphore(&sem_CURRENT_AIRCRAFTS)
Sel_Lock ==
  /\ pc["sel"] = "s_lock"
  /\ WaitSemaphore("CURRENT_AIRCRAFTS")
  /\ s_i' = 0
  /\ Goto("sel", "s_scan")
  /\ UNCHANGED <<wireVars, isrVars, fifo, lostData, stagingVars, liveVars,
                 selectedAircraft, cfgVars, decVars, updVars, projVars,
                 s_min, s_cand, s_sample, s_from, joystick_debounce,
                 inputVars, countVars, overflows>>

\* dx * dx + dy * dy of the confirm scan
CenterDistance(a) ==
  LET dx == a.screen_x - (X_MAX \div 2)
      dy == a.screen_y - ((Y_MAX + ((Y_MAX - 70) \div 2)) \div 2)
  IN dx * dx + dy * dy

\* One iteration of the scan for the aircraft closest to the centre, or
\* its exit.
Sel_Scan ==
  /\ pc["sel"] = "s_scan"
  /\ IF s_i < currentAircraftCount
       THEN LET a == currentAircrafts[s_i]
                closer == a.on_screen /\ CenterDistance(a) < s_min
            IN /\ s_min' = IF closer THEN CenterDistance(a) ELSE s_min
               /\ selectedAircraft' = IF closer THEN s_i ELSE selectedAircraft
               /\ s_i' = s_i + 1
               /\ UNCHANGED pc
       ELSE /\ Goto("sel", "s_unlock")
            /\ UNCHANGED <<s_min, selectedAircraft, s_i>>
  /\ UNCHANGED <<wireVars, isrVars, fifo, lostData, sem, stagingVars,
                 liveVars, cfgVars, decVars, updVars, projVars, s_cand,
                 s_sample, s_from, joystick_debounce, inputVars, countVars,
                 overflows>>

\* A selector that leaves its scan without releasing the lock.
Sel_UnlockKept ==
  /\ pc["sel"] = "s_unlock"
  /\ Goto("sel", "s_refresh")
  /\ UNCHANGED <<wireVars, isrVars, fifo, lostData, sem, stagingVars,
                 liveVars, selectedAircraft, cfgVars, decVars, updVars,
                 projVars, selVars, inputVars, countVars, overflows>>

\* G8RTOS_SignalSemaphore(&sem_CURRENT_AIRCRAFTS)
Sel_Unlock ==
  /\ pc["sel"] = "s_unlock"
  /\ SignalSemaphore("CURRENT_AIRCRAFTS")
  /\ Goto("sel", "s_refresh")
  /\ UNCHANGED <<wireVars, isrVars, fifo, lostData, stagingVars, liveVars,
                 selectedAircraft, cfgVars, decVars, updVars, projVars,
                 selVars, inputVars, countVars, overflows>>

\* The signals to sem_INFO_DISPLAY and sem_MAIN_DISPLAY, after the confirm
\* scan (then the interrupt is enabled again) or after a directional update.
Sel_Refresh ==
  /\ pc["sel"] \in {"s_refresh", "s_refresh_dir"}
  /\ sem' = [sem EXCEPT !["INFO_DISPLAY"] = @ + 1, !["MAIN_DISPLAY"] = @ + 1]
  /\ Goto("sel", IF pc["sel"] = "s_refresh" THEN "s_enable" ELSE "s_top")
  /\ UNCHANGED <<wireVars, isrVars, fifo, lostData, stagingVars, liveVars,
                 selectedAircraft, cfgVars, decVars, updVars, projVars,
                 selVars, inputVars, countVars, overflows>>

\* GPIOIntClear and GPIOIntEnable for the joystick
Sel_Enable ==
  /\ pc["sel"] = "s_enable"
  /\ intEnabled' = [intEnabled EXCEPT !["joystick"] = TRUE]
  /\ Goto("sel", "s_top")
  /\ UNCHANGED <<wireVars, isrVars, fifo, lostData, sem, stagingVars,
                 liveVars, selectedAircraft, display_range_km, display_track,
                 display_callsign, decVars, updVars, projVars, selVars,
                 inputVars, countVars, overflows>>

\* A debounce check that lets every sample through.
DebouncedNever(latch) == FALSE

\* if(!joystick_debounce)
Debounced(latch) == ~latch

\* JOYSTICK_GetXY, the deadzone test and the debounce latch
Sel_Sample(xy) ==
  /\ pc["sel"] = "s_sample"
  /\ held' = IF IsNeutral(xy) THEN 0 ELSE IF held = 0 THEN 1 ELSE 2
  /\ IF IsNeutral(xy)
       THEN /\ joystick_debounce' = TRUE
            /\ Goto("sel", "s_top")
            /\ UNCHANGED <<s_sample, samplesLeft>>
       ELSE IF Debounced(joystick_debounce)
         THEN /\ Goto("sel", "s_top")
              /\ UNCHANGED <<joystick_debounce, s_sample, samplesLeft>>
         ELSE /\ samplesLeft > 0
              /\ samplesLeft' = samplesLeft - 1
              /\ joystick_debounce' = FALSE
              /\ s_sample' = xy
              /\ Goto("sel", "s_closest")
  /\ UNCHANGED <<wireVars, isrVars, fifo, lostData, sem, stagingVars,
                 liveVars, selectedAircraft, cfgVars, decVars, updVars,
                 projVars, s_i, s_min, s_cand, s_from, pressesLeft, buttonsLeft,
                 countVars, overflows>>

\* The call closest_aircraft_by_angle(joystick_dx, joystick_dy)
Sel_Closest ==
  /\ pc["sel"] = "s_closest"
  /\ s_cand' = closest_aircraft_by_angle(s_sample)
  /\ s_from' = selectedAircraft
  /\ Goto("sel", "s_store")
  /\ UNCHANGED <<wireVars, isrVars, fifo, lostData, sem, stagingVars,
                 liveVars, selectedAircraft, cfgVars, decVars, updVars,
                 projVars, s_i, s_min, s_sample, joystick_debounce,
                 inputVars, countVars, overflows>>

\* selectedAircraft = (the value returned)
Sel_Store ==
  /\ pc["sel"] = "s_store"
  /\ selectedAircraft' = s_cand
  /\ Goto("sel", "s_refresh_dir")
  /\ UNCHANGED <<wireVars, isrVars, fifo, lostData, sem, stagingVars,
                 liveVars, cfgVars, decVars, updVars, projVars, selVars,
                 inputVars, countVars, overflows>>

(***************************** Update_Search_Range *************************)
\* Button_Handler
Button_Handler ==
  /\ intEnabled["buttons"]
  /\ buttonsLeft > 0
  /\ buttonsLeft' = buttonsLeft - 1
  /\ intEnabled' = [intEnabled EXCEPT !["buttons"] = FALSE]
  /\ SignalSemaphore("PCA9555_Debounce")
  /\ UNCHANGED <<wireVars, isrVars, fifo, lostData, stagingVars, liveVars,
                 selectedAircraft, display_range_km, display_track,
                 display_callsign, pc, decVars, updVars, projVars, selVars,
                 pressesLeft, samplesLeft, held, countVars, overflows>>

\* An increase that does not stop at MAX_RANGE.
IncreasedRangeUnbounded(r) == r + RANGE_STEP

\* G8RTOS_WaitSemaphore(&sem_PCA9555_Debounce)
Rng_Wait ==
  /\ pc["rng"] = "b_wait"
  /\ WaitSemaphore("PCA9555_Debounce")
  /\ Goto("rng", "b_buttons")
  /\ UNCHANGED <<wireVars, isrVars, fifo, lostData, stagingVars, liveVars,
                 selectedAircraft, cfgVars, decVars, updVars, projVars,
                 selVars, inputVars, countVars, overflows>>

IncreasedRange(r) == IF r + RANGE_STEP <= MAX_RANGE THEN r + RANGE_STEP ELSE MAX_RANGE
DecreasedRange(r) == IF r - RANGE_STEP >= MIN_RANGE THEN r - RANGE_STEP ELSE MIN_RANGE

\* MultimodButtons_Get() and the branch on the button pressed: SW1 and SW2
\* change display_range_km and call recalculate_screen_positions, SW3 and
\* SW4 toggle display_track and display_callsign.
Rng_Buttons(button) ==
  /\ pc["rng"] = "b_buttons"
  /\ display_range_km' =
       IF button = "SW1" THEN IncreasedRange(display_range_km)
       ELSE IF button = "SW2" THEN DecreasedRange(display_range_km)
       ELSE display_range_km
  /\ r_stable' = IF button \in {"SW1", "SW2"} THEN FALSE ELSE r_stable
  /\ display_track' = IF button = "SW3" THEN ~display_track ELSE display_track
  /\ display_callsign' =
       IF button = "SW4" THEN ~display_callsign ELSE display_callsign
  /\ Goto("rng", IF button \in {"SW1", "SW2"} THEN "r_lock"
                 ELSE IF button \in {"SW3", "SW4"} THEN "b_redraw"
                 ELSE "b_enable")
  /\ UNCHANGED <<wireVars, isrVars, fifo, lostData, sem, stagingVars,
                 liveVars, selectedAircraft, intEnabled, decVars, updVars,
                 r_i, selVars, inputVars, countVars, overflows>>

\* G8RTOS_SignalSemaphore(&sem_MAIN_DISPLAY)
Rng_Redraw ==
  /\ pc["rng"] = "b_redraw"
  /\ SignalSemaphore("MAIN_DISPLAY")
  /\ Goto("rng", "b_enable")
  /\ UNCHANGED <<wireVars, isrVars, fifo, lostData, stagingVars, liveVars,
                 selectedAircraft, cfgVars, decVars, updVars, projVars,
                 selVars, inputVars, countVars, overflows>>

\* GPIOIntEnable for the buttons
Rng_Enable ==
  /\ pc["rng"] = "b_enable"
  /\ intEnabled' = [intEnabled EXCEPT !["buttons"] = TRUE]
  /\ Goto("rng", "b_wait")
  /\ UNCHANGED <<wireVars, isrVars, fifo, lostData, sem, stagingVars,
                 liveVars, selectedAircraft, display_range_km, display_track,
                 display_callsign, decVars, updVars, projVars, selVars,
                 inputVars, countVars, overflows>>

(****************************** display threads ****************************)
\* Display_Aircrafts_Thread: G8RTOS_WaitSemaphore(&sem_MAIN_DISPLAY)
Dsp_Wait ==
  /\ pc["dsp"] = "m_wait"
  /\ WaitSemaphore("MAIN_DISPLAY")
  /\ Goto("dsp", "m_lock")
  /\ UNCHANGED <<wireVars, isrVars, fifo, lostData, stagingVars, liveVars,
                 selectedAircraft, cfgVars, decVars, updVars, projVars,
                 selVars, inputVars, countVars, overflows>>

\* G8RTOS_WaitSemaphore(&sem_CURRENT_AIRCRAFTS); the drawing loop runs while
\* the thread is at m_draw.
Dsp_Lock ==
  /\ pc["dsp"] = "m_lock"
  /\ WaitSemaphore("CURRENT_AIRCRAFTS")
  /\ Goto("dsp", "m_draw")
  /\ UNCHANGED <<wireVars, isrVars, fifo, lostData, stagingVars, liveVars,
                 selectedAircraft, cfgVars, decVars, updVars, projVars,
                 selVars, inputVars, countVars, overflows>>

\* G8RTOS_SignalSemaphore(&sem_CURRENT_AIRCRAFTS) after the drawing loop
Dsp_Unlock ==
  /\ pc["dsp"] = "m_draw"
  /\ SignalSemaphore("CURRENT_AIRCRAFTS")
  /\ Goto("dsp", "m_wait")
  /\ UNCHANGED <<wireVars, isrVars, fifo, lostData, stagingVars, liveVars,
                 selectedAircraft, cfgVars, decVars, updVars, projVars,
                 selVars, inputVars, countVars, overflows>>

\* Display_Aircraft_Info_Thread: G8RTOS_WaitSemaphore(&sem_INFO_DISPLAY)
Inf_Wait ==
  /\ pc["inf"] = "i_wait"
  /\ WaitSemaphore("INFO_DISPLAY")
  /\ Goto("inf", "i_read")
  /\ UNCHANGED <<wireVars, isrVars, fifo, lostData, stagingVars, liveVars,
                 selectedAircraft, cfgVars, decVars, updVars, projVars,
                 selVars, inputVars, countVars, overflows>>

\* The read of selectedAircraft and of currentAircrafts[selectedAircraft],
\* and the drawing of the panel
Inf_Read ==
  /\ pc["inf"] = "i_read"
  /\ Goto("inf", "i_wait")
  /\ UNCHANGED <<wireVars, isrVars, fifo, lostData, sem, stagingVars,
                 liveVars, selectedAircraft, cfgVars, decVars, updVars,
                 projVars, selVars, inputVars, countVars, overflows>>

(****************************** specification ******************************)
Decoder == Dec_Wait \/ Dec_ReadFIFO \/ Dec_Check \/ Dec_Store

Projector == \E t \in Projectors : Proj_Lock(t) \/ Proj_Record(t) \/ Proj_Unlock(t)

Commit ==
  \/ Upd_Wait \/ Upd_LockCurrent \/ Upd_LockStaging \/ Upd_Capture
  \/ Upd_Copy \/ Upd_SetCount \/ Upd_Reset \/ Upd_UnlockCurrent
  \/ Upd_UnlockStaging \/ Upd_Redraw

Selector ==
  \/ Sel_Top \/ Sel_Press \/ Sel_Lock \/ Sel_Scan \/ Sel_Unlock
  \/ Sel_Refresh \/ Sel_Enable \/ Sel_Closest \/ Sel_Store
  \/ \E xy \in JoystickSamples : Sel_Sample(xy)

Range ==
  \/ Rng_Wait \/ Rng_Redraw \/ Rng_Enable
  \/ \E b \in {"SW1", "SW2", "SW3", "SW4", "none"} : Rng_Buttons(b)

Display == Dsp_Wait \/ Dsp_Lock \/ Dsp_Unlock \/ Inf_Wait \/ Inf_Read

Next ==
  \/ Transmit \/ UART4_Handler \/ Decoder \/ Commit \/ Projector
  \/ Joystick_Button_Handler \/ Selector
  \/ Button_Handler \/ Range \/ Display

Spec == Init /\ [][Next]_vars

(******************************* specifications ****************************)
\* The byte pipeline alone, fed every stream of MaxMessages messages by a
\* sender that does not wait for the tasks.
NextPipeline ==
  \/ Transmit \/ UART4_Handler
  \/ Decoder \/ Commit
  \/ Proj_Lock("upd") \/ Proj_Record("upd") \/ Proj_Unlock("upd")

SpecPipeline ==
  Launch(Streams(MaxMessages), FALSE, 0, 0, 0) /\ [][NextPipeline]_vars

\* The pipeline and the selector, fed two bursts by a paced sender.
FeedsSelect ==
  { <<RecA, END, RecB, RecA, END>>, <<RecA, END, END>>,
    <<RecA, RecB, END, RecA, RecF, END>> }

NextSelect == NextPipeline \/ Joystick_Button_Handler \/ Selector

SpecSelect ==
  Launch(FeedsSelect, TRUE, MaxPresses, MaxSamples, 0) /\ [][NextSelect]_vars

\* The pipeline and the selector, fed one burst of at most MAX_AIRCRAFTS
\* records by a paced sender.
SpecClosest ==
  Launch(Bursts({RecA, RecB, RecC, RecD, RecF}, MAX_AIRCRAFTS), TRUE,
         MaxPresses, MaxSamples, 0) /\ [][NextSelect]_vars

\* The pipeline, the selector and the range buttons, fed one burst by a
\* paced sender.
FeedsRange ==
  { <<RecA, RecB, END>>, <<RecB, RecF, END>>, <<RecA, RecE, END>> }

NextRange ==
  \/ NextSelect \/ Button_Handler \/ Range
  \/ Proj_Lock("rng") \/ Proj_Record("rng") \/ Proj_Unlock("rng")

SpecRange ==
  Launch(FeedsRange, TRUE, MaxPresses, MaxSamples, MaxButtons)
    /\ [][NextRange]_vars

\* The byte pipeline fed every burst of at most MAX_AIRCRAFTS + 2 records
\* and the first record of the next burst, by a sender that waits for the
\* queue to drain.
FeedsOverflow ==
  { b \o <<RecB>> : b \in Bursts(WireRecords, MAX_AIRCRAFTS + 2) }

NextOverflow ==
  \/ TransmitDrained \/ UART4_Handler
  \/ Decoder \/ Commit
  \/ Proj_Lock("upd") \/ Proj_Record("upd") \/ Proj_Unlock("upd")

SpecOverflow ==
  Launch(FeedsOverflow, FALSE, 0, 0, 0) /\ [][NextOverflow]_vars

\* The pipeline and the selector, fed one burst by a paced sender, with a
\* confirm press and directional samples for two selection updates.
FeedsDebounce == { <<RecA, RecB, END>> }

SpecDebounce ==
  Launch(FeedsDebounce, TRUE, MaxPresses, MaxSamples + 1, 0)
    /\ [][NextSelect]_vars

\* The pipeline fed one record and the end of its burst by a paced sender,
\* for every call sign of seven bytes out of a blank, a letter, NUL and a
\* byte above 127 with at most one byte that is neither blank nor letter.
IdentBytes == {0, SPACE, 65, 200}

Identifiers ==
  { id \in [1..7 -> IdentBytes] :
      Cardinality({k \in 1..7 : id[k] \in {0, 200}}) <= 1 }

FeedsIdent == { <<WireRecordId(id, 0, 0), END>> : id \in Identifiers }

SpecIdent == Launch(FeedsIdent, TRUE, 0, 0, 0) /\ [][NextPipeline]_vars

\* The range thread served MaxRangeEvents button interrupts before any
\* record has been received: the live set is empty and the loop of the
\* projection it calls ends at once.
FeedsButtons == { <<>> }

NextButtons ==
  \/ Button_Handler \/ Range
  \/ Proj_Lock("rng") \/ Proj_Record("rng") \/ Proj_Unlock("rng")

SpecButtons ==
  Launch(FeedsButtons, TRUE, 0, 0, MaxRangeEvents) /\ [][NextButtons]_vars

\* The pipeline fed one record and the end of its burst by a paced sender,
\* for altitudes of 0, 1.0, 35000.0 and 10972.8001 units above and below 0.
Altitudes ==
  {0, 10000, 350000000, 109728001, 0 - 10000, 0 - 109728001}

FeedsNumeric == { <<WireRecordAlt(65, alt), END>> : alt \in Altitudes }

SpecNumeric == Launch(FeedsNumeric, TRUE, 0, 0, 0) /\ [][NextPipeline]_vars

\* The pipeline fed one burst of two records and its end word by a sender
\* that does not wait for the tasks; the altitude of the first record is 0,
\* 1.0 or -0.0001, whose fixed-point encoding is the all-ones word.
FramingRecords ==
  { WireRecordAlt(65, alt) : alt \in {0, SCALE, 0 - 1} }
    \cup { WireRecordAlt(66, 0) }

FeedsFraming ==
  { <<WireRecordAlt(65, alt), WireRecordAlt(66, 0), END>> :
      alt \in {0, SCALE, 0 - 1} }

SpecFraming == Launch(FeedsFraming, FALSE, 0, 0, 0) /\ [][NextPipeline]_vars

\* Every thread that takes a lock and every handler, fed one burst by a
\* paced sender, under a scheduler that lets every thread that can run do so
\* eventually.
FeedsLocks == { <<RecA, END>> }

NextLocks ==
  \/ NextRange \/ Dsp_Wait \/ Dsp_Lock \/ Dsp_Unlock

LockFairness ==
  /\ WF_vars(Commit) /\ WF_vars(Projector)
  /\ WF_vars(Sel_Scan \/ Sel_Unlock) /\ WF_vars(Dsp_Unlock)

SpecLocks ==
  Launch(FeedsLocks, TRUE, MaxPresses, MaxSamples, MaxButtons)
    /\ [][NextLocks]_vars /\ LockFairness

(********************************* claims **********************************)
LiveIndices == 0 .. (currentAircraftCount - 1)

\* The identifier of a record or of a captured string: its seven bytes.
Identifier(callsign) == SubSeq(callsign, 1, 7)

\* The step that ends the commit's copy: stagingAircraftCount = 0 is done and
\* both locks are still held.
CommitCompletes == pc["upd"] = "u_reset" /\ pc'["upd"] = "u_unlockcur"

\* A live record was selected when the commit captured SelectedCallSign.
SelectedBefore == u_sel # NA_LITERAL

\* The live set holds a record with the identifier selected before the commit.
CarriedOver ==
  \E i \in LiveIndices :
    Identifier(currentAircrafts[i].callsign) = Identifier(u_callsign)

SelectionFollows ==
  /\ selectedAircraft \in LiveIndices
  /\ Identifier(currentAircrafts[selectedAircraft].callsign)
       = Identifier(u_callsign)

\* C1: selection continuity across commit.  When a commit completes, if a
\* record with identifier X was selected before it and the committed set
\* holds a record with identifier X, at any index, the selection points to a
\* live record whose identifier is X.
C1_SelectionContinuity ==
  [][CommitCompletes =>
       ((SelectedBefore /\ CarriedOver) => SelectionFollows)']_vars

\* C2: selection cleared on loss at commit.  When a commit completes, if a
\* record was selected before it and no record of the committed set carries
\* its identifier, the selection is none.
C2_SelectionCleared ==
  [][CommitCompletes =>
       ((SelectedBefore /\ ~CarriedOver) => selectedAircraft = NONE)']_vars

\* C3: selection index validity.  In every state in which no task holds the
\* live-collection lock the selection is none or an index below the count of
\* the live set.
C3_SelectionValid ==
  sem["CURRENT_AIRCRAFTS"] = 1 =>
    (selectedAircraft = NONE \/ selectedAircraft \in LiveIndices)

\* C4: commit counts.  When a commit completes, the count of the live set
\* is the count staging held when the commit took the staging lock, and the
\* count of staging is 0.
C4_CommitCounts ==
  [][CommitCompletes =>
       (currentAircraftCount = u_before /\ stagingAircraftCount = 0)']_vars

\* The seven words of a wire record, and the record the decoder packs from
\* them.
WordsOf(r) == [k \in 1..RECORD_WORDS |->
                 SubSeq(RecordBytes(r), WORD_BYTES * (k - 1) + 1, WORD_BYTES * k)]
Decoded(r) == DecodeRecord(WordsOf(r), stackJunk)

\* C5: a burst commits exactly its records.  When the commit triggered by
\* the end of a burst of n <= MAX_AIRCRAFTS records completes, the live set
\* is those n records in arrival order and staging is empty.
C5_BurstCommitted ==
  [][(CommitCompletes /\ Len(u_expect) <= MAX_AIRCRAFTS) =>
       ( /\ currentAircraftCount = Len(u_expect)
         /\ \A i \in 1..Len(u_expect) :
              currentAircrafts[i - 1] = Decoded(u_expect[i])
         /\ stagingAircraftCount = 0 )']_vars

\* The decoder is at its read of stagingAircraftCount or at its append.
DecoderAppending == pc["dec"] \in {"d_check", "d_store"}
\* The commit is at its copy from staging or at the reset of its count.
CommitUsingStaging == pc["upd"] \in {"u_copy", "u_setcount", "u_reset"}

\* C6: staging lock discipline.  No state has the decoder appending to
\* staging while the commit is copying from staging or resetting its count.
C6_StagingExclusive == ~(DecoderAppending /\ CommitUsingStaging)

\* C7: live lock discipline.  Between the directional selector's computing
\* of the candidate index and its storing of it, no commit or projection
\* changes the live collection or the selection.
C7_DirectionalAtomic ==
  [][(pc["sel"] = "s_store" /\ pc'["sel"] = "s_store") =>
       UNCHANGED <<liveVars, selectedAircraft>>]_vars

\* No step of the pipeline is possible: the stream is sent, the handler has
\* no byte to receive and every task is blocked.
Quiescent ==
  /\ wire = <<>>
  /\ ~ENABLED (Transmit \/ Decoder \/ Commit \/ Proj_Lock("upd")
                \/ Proj_Record("upd") \/ Proj_Unlock("upd"))

\* The decoder is blocked in a read of the empty word queue.
DecoderStarved == pc["dec"] = "d_read" /\ fifo = <<>>

\* Every signal issued is either consumed by one wait or still pending.
SignalsConserved ==
  /\ nCommit + sem["BURST_COMPLETE"] = nBurst
  /\ nDecode + sem["DATA_READY"] = nReady

Qualifying(sel, dir) ==
  { i \in LiveIndices \ {sel} :
      /\ currentAircrafts[i].on_screen
      /\ \/ dir = "east" /\ currentAircrafts[i].longitude
                              > currentAircrafts[sel].longitude
         \/ dir = "west" /\ currentAircrafts[i].longitude
                              < currentAircrafts[sel].longitude
         \/ dir = "north" /\ currentAircrafts[i].latitude
                               > currentAircrafts[sel].latitude
         \/ dir = "south" /\ currentAircrafts[i].latitude
                               < currentAircrafts[sel].latitude }

C10_ProjectorRange ==
  \A t \in Projectors :
    pc[t] = "r_unlock" =>
      /\ r_stable =>
           \A i \in LiveIndices :
             currentAircrafts[i].on_screen
               = ~OutOfRange(currentAircrafts[i], display_range_km)
      /\ selectedAircraft # NONE =>
           /\ selectedAircraft \in LiveIndices
           /\ currentAircrafts[selectedAircraft].on_screen

\* The state a call of recalculate_screen_positions leaves when it is made
\* in the current state.
ProjectedOnce ==
  recalculate_screen_positions(currentAircrafts, currentAircraftCount,
                               selectedAircraft, display_range_km)

\* The state a second call leaves when it follows the first with nothing
\* changed in between.
ProjectedTwice ==
  recalculate_screen_positions(ProjectedOnce.live, currentAircraftCount,
                               ProjectedOnce.sel, display_range_km)

\* C11: a second call of recalculate_screen_positions, made with the live
\* set, the selection and display_range_km as the first call left them,
\* changes no visibility flag, no screen coordinate and not the selection.
C11_ProjectorIdempotent == ProjectedTwice = ProjectedOnce

\* The first call has work to do: it clears the selection of a record out
\* of range and moves a record in range.
C11_Witness ==
  /\ selectedAircraft # NONE
  /\ ProjectedOnce.sel = NONE
  /\ \E i \in LiveIndices :
       /\ ProjectedOnce.live[i].on_screen
       /\ ProjectedOnce.live[i].screen_x # currentAircrafts[i].screen_x

\* C12: in every reachable state stagingAircraftCount and
\* currentAircraftCount lie between 0 and MAX_AIRCRAFTS, whatever the stream
\* and however the decoder and the commit interleave.
C12_Capacity ==
  /\ stagingAircraftCount \in 0 .. MAX_AIRCRAFTS
  /\ currentAircraftCount \in 0 .. MAX_AIRCRAFTS

\* A full live set has been committed from a burst of which the decoder
\* refused a record.
C12_Witness == currentAircraftCount = MAX_AIRCRAFTS /\ overflows > 0

\* The decoder finishes a record it decoded while the staging set is full.
DecodedWhileFull ==
  /\ pc["dec"] = "d_check" /\ pc'["dec"] # "d_check"
  /\ stagingAircraftCount = MAX_AIRCRAFTS

\* C13: a record decoded while stagingAircraftCount = MAX_AIRCRAFTS is
\* discarded and one overflow is reported; the staged records and their count
\* are unchanged and the decoder is back at its wait for the next
\* record-ready event.
C13_StagingOverflow ==
  [][DecodedWhileFull =>
       /\ overflows' = overflows + 1
       /\ UNCHANGED stagingVars
       /\ pc'["dec"] = "d_wait"]_vars

\* After an overflow the decoder has staged the first record of a later
\* burst.
C13_Witness ==
  /\ overflows > 0 /\ pc["dec"] = "d_wait"
  /\ stagingAircraftCount = 1 /\ currentAircraftCount = MAX_AIRCRAFTS

\* The handler's statics, the FIFO and its counter as an invocation of the
\* handler finds them, and as they are after k bytes of that invocation.
HandlerEntry ==
  [buf |-> byte_buffer, idx |-> byte_index, cnt |-> message_byte_count,
   fifo |-> fifo, lost |-> lostData, burst |-> 0, ready |-> 0]

HandlerAfter(k) == HandlerLoop(HandlerEntry, SubSeq(wire, 1, k))

\* The bytes one invocation of the handler receives.
HandlerBytes == IF Len(wire) < RxChunk THEN Len(wire) ELSE RxChunk

\* The word that byte b completes in state st of the handler.
CompletedWord(st, b) == [st.buf EXCEPT ![WORD_BYTES] = b]

\* Byte b completes a word that is not the end-of-burst word.
CompletesData(st, b) ==
  st.idx = WORD_BYTES - 1 /\ CompletedWord(st, b) # SENTINEL

VisibleIndices == {i \in LiveIndices : currentAircrafts[i].on_screen}

DisplayDistance(a) ==
  (a.screen_x - RADAR_CENTER_X) * (a.screen_x - RADAR_CENTER_X)
    + (a.screen_y - RADAR_CENTER_Y) * (a.screen_y - RADAR_CENTER_Y)

\* The lowest index among the visible records nearest to the centre.
NearestToCenter ==
  IF VisibleIndices = {} THEN NONE
  ELSE CHOOSE i \in VisibleIndices :
         \A j \in VisibleIndices :
           \/ DisplayDistance(currentAircrafts[i])
                < DisplayDistance(currentAircrafts[j])
           \/ /\ DisplayDistance(currentAircrafts[i])
                   = DisplayDistance(currentAircrafts[j])
              /\ i <= j

\* The confirm scan, entered with no selection, leaves its loop.
ConfirmScanEnds == pc["sel"] = "s_scan" /\ pc'["sel"] = "s_unlock"

\* C15: when a confirm input is processed with no selection, the selection
\* becomes the lowest index among the visible live records at minimum squared
\* screen distance from the display centre, and stays none when no live
\* record is visible.
C15_ConfirmPick ==
  [][ConfirmScanEnds => selectedAircraft' = NearestToCenter]_vars

\* The delta of live record i from record sel along direction dir.
DirectionalDelta(i, sel, dir) ==
  IF dir \in {"east", "west"}
    THEN Abs(currentAircrafts[i].longitude - currentAircrafts[sel].longitude)
    ELSE Abs(currentAircrafts[i].latitude - currentAircrafts[sel].latitude)

\* The reference scan: the qualifying records at the smallest delta.
NearestInDirection(sel, dir) ==
  { i \in Qualifying(sel, dir) :
      \A j \in Qualifying(sel, dir) :
        DirectionalDelta(i, sel, dir) <= DirectionalDelta(j, sel, dir) }

\* closest_aircraft_by_angle returns for an input classified as a direction.
DirectionalCall ==
  /\ pc["sel"] = "s_closest" /\ pc'["sel"] = "s_store"
  /\ selectedAircraft # NONE
  /\ Direction(s_sample) # "none"

\* C16: for a directional input classified as east, west, north or south and
\* taken while a record is selected, the index closest_aircraft_by_angle
\* returns is, when some visible record other than the selected one has a
\* positive delta in that direction, one of those at the smallest delta, as
\* a reference scan over all the live records finds it, and the index stored
\* as the new selection is the one returned.
C16_DirectionalPick ==
  [][ /\ (DirectionalCall
            /\ Qualifying(selectedAircraft, Direction(s_sample)) # {}) =>
           s_cand' \in NearestInDirection(selectedAircraft,
                                          Direction(s_sample))
      /\ (pc["sel"] = "s_store" /\ pc'["sel"] # "s_store") =>
           selectedAircraft' = s_cand ]_vars

\* The selection moved to the nearer of two records that qualify in the
\* direction of the input.
C16_Witness ==
  /\ pc["sel"] = "s_refresh_dir"
  /\ s_from # NONE /\ s_cand # s_from /\ selectedAircraft = s_cand
  /\ Direction(s_sample) # "none"
  /\ \E j \in Qualifying(s_from, Direction(s_sample)) :
       DirectionalDelta(j, s_from, Direction(s_sample))
         > DirectionalDelta(s_cand, s_from, Direction(s_sample))

\* The selector reads a joystick sample; it goes on to a directional
\* selection update.
SampleRead == pc["sel"] = "s_sample" /\ pc'["sel"] # "s_sample"

DirectionalUpdate == SampleRead /\ pc'["sel"] = "s_closest"

\* C17: a directional selection update is performed only for the first
\* sample outside the deadzone that follows a neutral sample (or the start),
\* so at most one per stay outside the deadzone; the first sample outside the
\* deadzone read after a neutral one is processed, and the latch is FALSE
\* exactly while the input has stayed outside the deadzone since an update.
C17_DebounceLatch ==
  [][ /\ DirectionalUpdate => held = 0 /\ held' = 1
      /\ (SampleRead /\ held = 0 /\ held' = 1) => DirectionalUpdate
      /\ SampleRead => (joystick_debounce' <=> held' = 0) ]_vars

\* A second selection update has been performed, after a neutral sample
\* reset the latch that the first update had cleared.
C17_Witness ==
  /\ samplesLeft = 0 /\ held = 2 /\ ~joystick_debounce
  /\ pc["sel"] = "s_top"

\* A step of the interrupt handler.
HandlerStep == Len(wire') < Len(wire)

\* The bytes accumulated and not yet formed into a word followed by the
\* bytes this invocation receives, and the words they form.
ReceivedBytes ==
  SubSeq(byte_buffer, 1, byte_index) \o SubSeq(wire, 1, HandlerBytes)

ReceivedWords ==
  [j \in 1 .. (Len(ReceivedBytes) \div WORD_BYTES) |->
     SubSeq(ReceivedBytes, WORD_BYTES * (j - 1) + 1, WORD_BYTES * j)]

SentinelWords == {j \in DOMAIN ReceivedWords : ReceivedWords[j] = SENTINEL}

\* The queue after every word other than the all-ones word has been offered
\* to it in order.
RECURSIVE Offered(_, _)
Offered(q, words) ==
  IF words = <<>> THEN q
  ELSE Offered(IF Head(words) = SENTINEL THEN q ELSE WriteFIFO(q, Head(words)),
               Tail(words))

\* C18: every four accumulated bytes that form the all-ones word signal
\* sem_BURST_COMPLETE once, set message_byte_count to 0 and queue nothing;
\* every other completed word is offered to DATA_FIFO and signals nothing.
C18_Sentinel ==
  [][HandlerStep =>
       /\ sem'["BURST_COMPLETE"]
            = sem["BURST_COMPLETE"] + Cardinality(SentinelWords)
       /\ fifo' = Offered(fifo, ReceivedWords)
       /\ \A k \in 0 .. (HandlerBytes - 1) :
            LET st == HandlerAfter(k)
                b == wire[k + 1]
                nx == HandlerByte(st, b)
            IN (st.idx = WORD_BYTES - 1 /\ CompletedWord(st, b) = SENTINEL)
                 => /\ nx.cnt = 0 /\ nx.fifo = st.fifo
                    /\ nx.burst = st.burst + 1 ]_vars

\* The handler has received a record and the end-of-burst word: the seven
\* words of the record are queued and one burst-complete signal is pending.
C18_Witness ==
  /\ nDecode = 0 /\ wire = <<>>
  /\ nBurst = 1 /\ sem["BURST_COMPLETE"] = 1
  /\ fifo = WordsOf(RecA) /\ message_byte_count = 0

\* C19: sem_DATA_READY is signalled at a byte exactly when that byte is the
\* 28th received since the last signal or all-ones word; message_byte_count
\* is then 0 again, and that byte completes the seventh word of the record,
\* which is offered to DATA_FIFO before the signal like the six before it
\* (the count and the word accumulator stay aligned).
C19_RecordReady ==
  [][HandlerStep =>
       /\ sem'["DATA_READY"]
            = sem["DATA_READY"] + HandlerAfter(HandlerBytes).ready
       /\ message_byte_count' = HandlerAfter(HandlerBytes).cnt
       /\ \A k \in 0 .. (HandlerBytes - 1) :
            LET st == HandlerAfter(k)
                b == wire[k + 1]
                nx == HandlerByte(st, b)
                emitted == nx.ready = st.ready + 1
                isEnd == st.idx = WORD_BYTES - 1
                           /\ CompletedWord(st, b) = SENTINEL
            IN /\ st.cnt % WORD_BYTES = st.idx
               /\ st.cnt < MESSAGE_SIZE
               /\ nx.ready \in {st.ready, st.ready + 1}
               /\ emitted <=> (st.cnt + 1 = MESSAGE_SIZE /\ ~isEnd)
               /\ emitted =>
                    /\ nx.cnt = 0
                    /\ st.idx = WORD_BYTES - 1
                    /\ nx.fifo = WriteFIFO(st.fifo, CompletedWord(st, b))
               /\ (~emitted /\ ~isEnd) => nx.cnt = st.cnt + 1 ]_vars

\* The handler has signalled sem_DATA_READY for a record whose seven words
\* are in the queue, before the decoder has read any.
C19_Witness ==
  /\ nReady = 1 /\ sem["DATA_READY"] = 1 /\ nDecode = 0
  /\ message_byte_count = 0 /\ wire = <<>>
  /\ fifo = WordsOf(RecB)

\* The commit thread signals sem_MAIN_DISPLAY.
CommitRedraw ==
  /\ pc'["upd"] # pc["upd"]
  /\ sem'["MAIN_DISPLAY"] = sem["MAIN_DISPLAY"] + 1

\* C20: the commit thread requests a redraw only from the statement that
\* follows its call of recalculate_screen_positions: when it signals
\* sem_MAIN_DISPLAY the projection loop has gone through every record of the
\* live set the commit installed, and, the display radius not having changed
\* since that projection began, every live record carries the visibility and
\* the coordinates the projection gives it.
C20_ProjectBeforeRedraw ==
  [][CommitRedraw =>
       /\ pc["upd"] = "u_redraw"
       /\ r_i["upd"] = currentAircraftCount
       /\ r_stable => ProjectedOnce.live = currentAircrafts ]_vars

\* The commit of a burst of two records has projected them and requested
\* its redraw, no other task having requested one.
C20_Witness ==
  /\ nCommit = 1 /\ pc["upd"] = "u_wait" /\ sem["BURST_COMPLETE"] = 0
  /\ currentAircraftCount = 2
  /\ sem["MAIN_DISPLAY"] = InitSemaphores["MAIN_DISPLAY"] + 1
  /\ pressesLeft = MaxPresses /\ buttonsLeft = MaxButtons

\* Thread t is between its wait and its signal of sem_CURRENT_AIRCRAFTS,
\* or of sem_STAGING_AIRCRAFTS.
HoldsCurrent(t) ==
  \/ t = "upd" /\ pc[t] \in {"u_lockstg", "u_capture", "u_copy", "u_setcount",
                               "u_reset", "u_unlockcur"}
  \/ t \in Projectors /\ pc[t] \in {"r_loop", "r_unlock"}
  \/ t = "sel" /\ pc[t] \in {"s_scan", "s_unlock"}
  \/ t = "dsp" /\ pc[t] = "m_draw"

HoldsStaging(t) ==
  t = "upd" /\ pc[t] \in {"u_capture", "u_copy", "u_setcount", "u_reset",
                           "u_unlockcur", "u_unlockstg"}

\* Thread t is blocked in its wait for the lock.
WaitsCurrent(t) ==
  /\ sem["CURRENT_AIRCRAFTS"] = 0
  /\ \/ t = "upd" /\ pc[t] = "u_lockcur"
     \/ t \in Projectors /\ pc[t] = "r_lock"
     \/ t = "sel" /\ pc[t] = "s_lock"
     \/ t = "dsp" /\ pc[t] = "m_lock"

WaitsStaging(t) ==
  sem["STAGING_AIRCRAFTS"] = 0 /\ t = "upd" /\ pc[t] = "u_lockstg"

\* Each lock is held by one thread exactly when its semaphore is 0.
LocksHeldByOne ==
  /\ sem["CURRENT_AIRCRAFTS"] = 1 - Cardinality({t \in Threads : HoldsCurrent(t)})
  /\ sem["STAGING_AIRCRAFTS"] = 1 - Cardinality({t \in Threads : HoldsStaging(t)})

\* No thread that holds one of the two locks is blocked waiting for the
\* other, so no cycle of waits exists.
NoHolderWaits ==
  \A t \in Threads :
    /\ HoldsCurrent(t) => ~WaitsStaging(t)
    /\ HoldsStaging(t) => ~WaitsCurrent(t)

\* C21: a thread that has taken sem_CURRENT_AIRCRAFTS or
\* sem_STAGING_AIRCRAFTS eventually signals it, and no thread holding one of
\* the two is blocked waiting for the other (no cyclic wait), among the
\* commit, the projections, the selector, the decoder and the display.
C21_NoLockBlocking ==
  /\ [](LocksHeldByOne /\ NoHolderWaits)
  /\ (sem["CURRENT_AIRCRAFTS"] = 0) ~> (sem["CURRENT_AIRCRAFTS"] = 1)
  /\ (sem["STAGING_AIRCRAFTS"] = 0) ~> (sem["STAGING_AIRCRAFTS"] = 1)

\* The commit holds both locks while the selector and the display wait for
\* the live lock.
C21_Witness ==
  /\ pc["upd"] = "u_copy"
  /\ WaitsCurrent("sel") /\ WaitsCurrent("dsp")

\* The semaphores the handler signals, and those it never touches.
HandlerSignals == {"BURST_COMPLETE", "DATA_READY"}

\* C22: the handler never waits: whenever the UART holds bytes an invocation
\* of the handler can run, whatever the FIFO holds, whoever holds the locks
\* and wherever the threads are; the invocation takes every byte the UART
\* held, lowers no semaphore, touches no lock and moves no thread.
C22_HandlerNeverWaits ==
  /\ [](wire # <<>> => ENABLED UART4_Handler)
  /\ [][HandlerStep =>
          /\ Len(wire') = Len(wire) - HandlerBytes
          /\ \A x \in DOMAIN sem :
               IF x \in HandlerSignals THEN sem'[x] >= sem[x]
                                       ELSE sem'[x] = sem[x]
          /\ pc' = pc
          /\ fifo' = HandlerAfter(HandlerBytes).fifo
          /\ lostData' = HandlerAfter(HandlerBytes).lost]_vars

\* The UART holds bytes while the FIFO is full, the commit holds both locks
\* and the decoder is in the middle of a record.
C22_Witness ==
  /\ wire # <<>> /\ Len(fifo) = FIFO_SIZE
  /\ sem["CURRENT_AIRCRAFTS"] = 0 /\ sem["STAGING_AIRCRAFTS"] = 0
  /\ pc["dec"] = "d_read"

\* The seven call sign bytes of the words the decoder has read, in the order
\* they were received.
ReceivedIdent(words) ==
  [k \in 1..7 |-> IF k <= WORD_BYTES THEN words[1][k]
                                     ELSE words[2][k - WORD_BYTES]]

\* The decoder reads the last word of a record and packs it; it stores the
\* packed record.
DecoderPacks == pc["dec"] = "d_read" /\ pc'["dec"] = "d_check"
DecoderStores == pc["dec"] = "d_store" /\ pc'["dec"] = "d_wait"

\* The call sign kept for the received bytes id.
KeptIdent(cs, id) ==
  IF id[1] = SPACE THEN cs = NA_CALLSIGN
  ELSE \A k \in 1..7 : cs[k] = id[k]

\* The decoder takes a record-ready event with no word read, pops one word
\* per read and only while it reads a record, and packs a record when it
\* has popped RECORD_WORDS words.
SevenWordsPerEvent ==
  /\ sem'["DATA_READY"] < sem["DATA_READY"] => d_words' = <<>>
  /\ Len(fifo') < Len(fifo) =>
       /\ pc["dec"] = "d_read" /\ fifo' = Tail(fifo)
       /\ d_words' = Append(d_words, Head(fifo))
  /\ pc'["dec"] \in {"d_check", "d_store"} => Len(d_words') = RECORD_WORDS

\* The packed and the stored call sign are the received bytes, or "N/A",
\* for the records whose seven call sign bytes are in the set ok.
IdentDecoded(ok) ==
  /\ DecoderPacks =>
       LET id == ReceivedIdent(d_words')
       IN (\A k \in 1..7 : id[k] \in ok) => KeptIdent(d_data'.callsign, id)
  /\ DecoderStores =>
       LET id == ReceivedIdent(d_words)
       IN (\A k \in 1..7 : id[k] \in ok) =>
            KeptIdent(stagingAircrafts'[d_idx].callsign, id)

RangeEvent == pc["rng"] = "b_buttons" /\ pc'["rng"] = "r_lock"

\* C24: display_range_km stays within MIN_RANGE..MAX_RANGE; a range event
\* moves it by RANGE_STEP, or leaves it at the bound it would pass, and
\* nothing else changes it.
C24_RangeBounds ==
  /\ [](display_range_km \in MIN_RANGE .. MAX_RANGE)
  /\ [][IF RangeEvent
          THEN \/ /\ display_range_km + RANGE_STEP <= MAX_RANGE
                  /\ display_range_km' = display_range_km + RANGE_STEP
               \/ /\ display_range_km + RANGE_STEP > MAX_RANGE
                  /\ display_range_km' = MAX_RANGE
               \/ /\ display_range_km - RANGE_STEP >= MIN_RANGE
                  /\ display_range_km' = display_range_km - RANGE_STEP
               \/ /\ display_range_km - RANGE_STEP < MIN_RANGE
                  /\ display_range_km' = MIN_RANGE
          ELSE display_range_km' = display_range_km]_vars

\* Fifteen increases have been served and redrawn, and a sixteenth one has
\* left the range at MAX_RANGE.
C24_Witness ==
  /\ display_range_km = MAX_RANGE /\ pc["rng"] = "r_lock"
  /\ buttonsLeft = MaxRangeEvents - 16
  /\ nCommit = 0 /\ sem["MAIN_DISPLAY"] = InitSemaphores["MAIN_DISPLAY"] + 15
  /\ display_track /\ display_callsign

\* The float decoded from the fixed-point integer v, multiplied by SCALE
\* without further rounding, is within one unit of v, that is the physical
\* value is reproduced to within 1 / SCALE.  With d = DivideByScale of the
\* float f of v, SCALE times the decoded magnitude is d.man * SCALE_ODD /
\* 2^d.exp, which differs from |v| by (d.err + (|f| - |v|) * 2^d.exp) /
\* 2^d.exp; |d.err| is below SCALE_ODD < 2^10.
RoundTrips(v) ==
  LET f == FloatOfInt(v)
      d == DivideByScale(f)
  IN IF d.exp >= 10
       THEN f = v
       ELSE Abs(d.err + (Abs(f) - Abs(v)) * Pow2(d.exp)) <= Pow2(d.exp)

\* C25: the five numeric fields of every record the decoder packs
\* (longitude, latitude, altitude, velocity, heading: words 3..7), decoded
\* as (float)field / 10000.0f and multiplied by 10000 again, reproduce the
\* physical value field / 10000 to within 1e-4.
C25_NumericRoundTrip ==
  [][DecoderPacks =>
       \A k \in 3 .. RECORD_WORDS : RoundTrips(Dec32(d_words'[k]))]_vars

\* The selector or the display holds sem_CURRENT_AIRCRAFTS; the commit has
\* copied a burst into the live set and its projection has not started.
ReaderHoldsLive == HoldsCurrent("sel") \/ HoldsCurrent("dsp")
CommittedUnprojected ==
  pc["upd"] \in {"u_unlockstg", "r_lock"} /\ currentAircraftCount > 0

\* C26: while the selector or the display holds the live lock after a
\* commit's copy, the records of the live set carry the screen coordinates
\* and the visibility flag that the projection of that commit gives them:
\* no reader takes the lock between the copy and the projection and sees
\* anything else.
C26_AtomicPublication ==
  (ReaderHoldsLive /\ CommittedUnprojected) =>
    currentAircrafts =
      recalculate_screen_positions(currentAircrafts, currentAircraftCount,
                                   selectedAircraft, display_range_km).live

\* With no word lost by the FIFO, the seven words the decoder packs are the
\* seven words of one of the records sent.
FramedRecord ==
  (DecoderPacks /\ lostData' = 0) =>
    \E r \in FramingRecords : d_words' = WordsOf(r)

\* The handler has emitted at most one burst-complete event for the one
\* burst of the stream, and none before the end word was sent.
OneBurstEvent == nBurst <= 1 /\ (nBurst = 1 => feed = <<>>)

\* C27: for a burst of valid records closed by the end word, whatever the
\* values of the fields (a numeric field encoded as the all-ones word
\* included), every record the decoder packs is made of the seven words of
\* one wire record and exactly one burst-complete event is emitted.
C27_RecordFraming == [][FramedRecord]_vars /\ []OneBurstEvent

\* C28: the eighth byte of the call sign of every record stored in staging,
\* and of every live record, is NUL, for a decoded call sign as for "N/A".
C28_IdentTerminated ==
  /\ \A i \in 0 .. (stagingAircraftCount - 1) :
       i \in Slots => stagingAircrafts[i].callsign[8] = 0
  /\ \A i \in 0 .. (currentAircraftCount - 1) :
       i \in Slots => currentAircrafts[i].callsign[8] = 0

TypeOK ==
  /\ selectedAircraft \in (0 - 1) .. (MAX_AIRCRAFTS - 1)
  /\ stagingAircraftCount \in 0 .. MAX_AIRCRAFTS
  /\ \A s \in DOMAIN sem : sem[s] >= 0

====
